---------------------------- MODULE Spec2Model ----------------------------
(***************************************************************************)
(* Parent-company finder: the Flask service (app.py) and its sibling       *)
(* command-line loop (app1.py).                                            *)
(*                                                                         *)
(* Text is modelled as a sequence of one-character strings so that         *)
(* str.strip, str.lower, str.rsplit and secure_filename are computed and   *)
(* not assumed.  An optional value (None / a missing dict key) is the      *)
(* empty sequence, a present value v is <<v>>.                             *)
(***************************************************************************)
EXTENDS Integers, Sequences, FiniteSets, TLC

(***************************************************************************)
(* Bounds of the model.                                                    *)
(***************************************************************************)
MaxRows == 2

(***************************************************************************)
(* Text helpers: Python's str methods.                                     *)
(***************************************************************************)
UpperChars == <<"A","B","C","D","E","F","G","H","I","J","K","L","M",
                "N","O","P","Q","R","S","T","U","V","W","X","Y","Z">>
LowerChars == <<"a","b","c","d","e","f","g","h","i","j","k","l","m",
                "n","o","p","q","r","s","t","u","v","w","x","y","z">>
Digits == {"0","1","2","3","4","5","6","7","8","9"}
Whitespace == {" ", "\t", "\n"}

Range(s) == {s[i] : i \in DOMAIN s}

\* str.lower() on one character: the table for the upper-case letters
LowerTable ==
    [c \in Range(UpperChars) |->
       LowerChars[CHOOSE i \in DOMAIN UpperChars : UpperChars[i] = c]]

\* str.lower()
Lower(s) ==
    [i \in DOMAIN s |-> IF s[i] \in DOMAIN LowerTable THEN LowerTable[s[i]] ELSE s[i]]

\* str.lstrip(chars)
RECURSIVE LStripSet(_, _)
LStripSet(s, cs) ==
    IF s # <<>> /\ Head(s) \in cs THEN LStripSet(Tail(s), cs) ELSE s

\* str.rstrip(chars)
RECURSIVE RStripSet(_, _)
RStripSet(s, cs) ==
    IF s # <<>> /\ s[Len(s)] \in cs
    THEN RStripSet(SubSeq(s, 1, Len(s) - 1), cs)
    ELSE s

\* str.strip(chars)
StripSet(s, cs) == RStripSet(LStripSet(s, cs), cs)

\* str.strip()
Strip(s) == StripSet(s, Whitespace)

\* index of the last occurrence of c in s, 0 when absent (str.rfind + 1)
LastIndexOf(s, c) ==
    IF \E i \in DOMAIN s : s[i] = c
    THEN CHOOSE i \in DOMAIN s : s[i] = c /\ \A j \in DOMAIN s : s[j] = c => j <= i
    ELSE 0

\* s.rsplit('.', 1)[1]
RSplitExt(s) == SubSeq(s, LastIndexOf(s, ".") + 1, Len(s))

\* literals of the source
NoParentCompany == <<"N","o"," ","p","a","r","e","n","t"," ","c","o","m","p","a","n","y">>
ApiError == <<"A","P","I"," ","E","r","r","o","r">>
ErrorNotInitialized ==
    <<"E","r","r","o","r",":"," ","A","P","I"," ","c","l","i","e","n","t"," ",
      "n","o","t"," ","i","n","i","t","i","a","l","i","z","e","d">>
ErrorFor == <<"E","r","r","o","r"," ","f","o","r"," ">>
AnErrorOccurred == <<"A","n"," ","e","r","r","o","r"," ","o","c","c","u","r","r","e","d",":"," ">>
NanText == <<"n","a","n">>
ParentCompanyHeader == "Parent Company"
ProcessedPrefix == <<"p","r","o","c","e","s","s","e","d","_">>

\* optional values
None == <<>>
Some(v) == <<v>>

(***************************************************************************)
(* The upstream chat-completion call: it either raises or returns the raw  *)
(* text of the first choice.                                               *)
(***************************************************************************)
Fail == [ok |-> FALSE, text |-> <<>>]
Reply(t) == [ok |-> TRUE, text |-> t]

ReplyPool == { <<" ","A","B","\n">>, <<"X","y">> }
Outcomes == {Fail} \cup {Reply(t) : t \in ReplyPool}

(***************************************************************************)
(* The resolvers.  client is "None" or "Groq".                             *)
(***************************************************************************)
\* get_parent_company_info whose except branch returns the error alone
get_parent_company_info_ErrorOnly(client, company_name, o1, o2) ==
    IF client = "None"
    THEN [error |-> Some("API client not initialized. Check your GROQ_API_KEY."),
          parent_company |-> None, description |-> None, calls |-> 0]
    ELSE IF ~o1.ok \/ ~o2.ok
    THEN [error |-> Some("An API error occurred"),
          parent_company |-> None, description |-> None,
          calls |-> IF o1.ok THEN 2 ELSE 1]
    ELSE [error |-> None,
          parent_company |-> Some(IF Lower(Strip(o1.text)) = Lower(company_name)
                                  THEN NoParentCompany ELSE Strip(o1.text)),
          description |-> Some(Strip(o2.text)), calls |-> 2]

\* app.py get_parent_company_info; o1, o2 are the outcomes of the two calls
get_parent_company_info(client, company_name, o1, o2) ==
    IF client = "None"
    THEN [error |-> Some("API client not initialized. Check your GROQ_API_KEY."),
          parent_company |-> None, description |-> None, calls |-> 0]
    ELSE IF ~o1.ok
    THEN [error |-> Some("An API error occurred"),
          parent_company |-> Some(ErrorFor \o company_name),
          description |-> Some(ErrorFor \o company_name), calls |-> 1]
    ELSE IF ~o2.ok
    THEN [error |-> Some("An API error occurred"),
          parent_company |-> Some(ErrorFor \o company_name),
          description |-> Some(ErrorFor \o company_name), calls |-> 2]
    ELSE LET reply == Strip(o1.text)
             parent_company == IF Lower(reply) = Lower(company_name)
                               THEN NoParentCompany ELSE reply
         IN  [error |-> None,
              parent_company |-> Some(parent_company),
              description |-> Some(Strip(o2.text)), calls |-> 2]

\* get_parent_company_only comparing without .lower()
get_parent_company_only_CaseSensitive(client, company_name, o) ==
    IF client = "None" THEN ErrorNotInitialized
    ELSE IF ~o.ok THEN ApiError
    ELSE IF Strip(o.text) = company_name THEN NoParentCompany ELSE Strip(o.text)

\* get_parent_company_only without its try/except placeholder
get_parent_company_only_BlankOnError(client, company_name, o) ==
    IF client = "None" THEN ErrorNotInitialized
    ELSE IF ~o.ok THEN <<>>
    ELSE IF Lower(Strip(o.text)) = Lower(company_name)
         THEN NoParentCompany ELSE Strip(o.text)

\* app.py get_parent_company_only; o is the outcome of the call
get_parent_company_only(client, company_name, o) ==
    IF client = "None" THEN ErrorNotInitialized
    ELSE IF ~o.ok THEN ApiError
    ELSE LET parent_company == Strip(o.text)
         IN  IF Lower(parent_company) = Lower(company_name)
             THEN NoParentCompany ELSE parent_company

\* upstream calls made by get_parent_company_only
only_calls(client) == IF client = "None" THEN 0 ELSE 1

\* app1.py get_parent_company
get_parent_company(company_name, o) ==
    IF ~o.ok THEN AnErrorOccurred
    ELSE LET parent_company_from_api == Strip(o.text)
         IN  IF Lower(parent_company_from_api) = Lower(company_name)
             THEN NoParentCompany ELSE parent_company_from_api


(***************************************************************************)
(* Paths.  os_name is "posix" or "nt": os.path.join and the file system    *)
(* split a path at "/" and, on nt, also at "\".  The application directory *)
(* ("root") holds the source file and the two staging directories.         *)
(***************************************************************************)
Seps(os) == IF os = "nt" THEN {"/", "\\"} ELSE {"/"}

UPLOAD_FOLDER == <<"u","p","l","o","a","d","s">>
OUTPUT_FOLDER == <<"o","u","t","p","u","t","s">>
AppPy == <<"a","p","p",".","p","y">>
Dot == <<".">>
DotDot == <<".",".">>

\* the components of a path, empty components dropped
RECURSIVE SplitPath(_, _, _)
SplitPath(s, seps, cur) ==
    IF s = <<>> THEN (IF cur = <<>> THEN <<>> ELSE <<cur>>)
    ELSE IF Head(s) \in seps
         THEN (IF cur = <<>> THEN <<>> ELSE <<cur>>) \o SplitPath(Tail(s), seps, <<>>)
         ELSE SplitPath(Tail(s), seps, Append(cur, Head(s)))

\* nt resolves "." and ".." lexically, before the file system is asked
RECURSIVE NormLexical(_, _)
NormLexical(comps, done) ==
    IF comps = <<>> THEN done
    ELSE LET c == Head(comps) IN
         IF c = Dot THEN NormLexical(Tail(comps), done)
         ELSE IF c = DotDot /\ done # <<>> /\ done[Len(done)] # DotDot
         THEN NormLexical(Tail(comps), SubSeq(done, 1, Len(done) - 1))
         ELSE NormLexical(Tail(comps), Append(done, c))

ParentDir(d) == IF d \in {"uploads", "outputs"} THEN "root" ELSE "above"

\* the names a directory holds; up and out are the staging directories' files
DirFiles(d, up, out) ==
    CASE d = "uploads" -> DOMAIN up
      [] d = "outputs" -> DOMAIN out
      [] d = "root" -> {AppPy}
      [] OTHER -> {}

\* walk the components from directory d
RECURSIVE Walk(_, _, _, _)
Walk(d, comps, up, out) ==
    IF comps = <<>> THEN [kind |-> "dir", dir |-> d, name |-> <<>>]
    ELSE LET c == Head(comps) rest == Tail(comps) IN
         IF c = Dot THEN Walk(d, rest, up, out)
         ELSE IF c = DotDot THEN Walk(ParentDir(d), rest, up, out)
         ELSE IF d = "root" /\ c = UPLOAD_FOLDER THEN Walk("uploads", rest, up, out)
         ELSE IF d = "root" /\ c = OUTPUT_FOLDER THEN Walk("outputs", rest, up, out)
         ELSE IF rest = <<>>
         THEN [kind |-> IF c \in DirFiles(d, up, out) THEN "file" ELSE "none",
               dir |-> d, name |-> c]
         ELSE [kind |-> "nodir", dir |-> d, name |-> c]

\* where os.path.join(folder, filename) leads, from the application directory
Locate(os, folder, filename, up, out) ==
    LET comps == <<folder>> \o SplitPath(filename, Seps(os), <<>>)
    IN  Walk("root", IF os = "nt" THEN NormLexical(comps, <<>>) ELSE comps, up, out)

\* os.path.exists
PathExists(loc) == loc.kind \in {"file", "dir"}

(***************************************************************************)
(* Workbooks.  A stored file is a record: valid (a readable spreadsheet),  *)
(* columns (the header row) and rows (cells: None for an empty cell, else  *)
(* Some(text)).                                                            *)
(***************************************************************************)
NotASheet == [valid |-> FALSE, columns |-> <<>>, rows |-> <<>>]

\* some of the texts pandas reads as NaN (its default na_values)
NaValues == { <<>>, NanText, <<"N","a","N">>, <<"N","A">>, <<"n","u","l","l">>,
              <<"N","U","L","L">>, <<"N","o","n","e">> }

\* pd.read_excel on a readable file
read_excel(file) ==
    [columns |-> file.columns,
     rows |-> [i \in DOMAIN file.rows |->
                 [j \in DOMAIN file.rows[i] |->
                    IF file.rows[i][j] # None /\ file.rows[i][j][1] \in NaValues
                    THEN None ELSE file.rows[i][j]]]]

\* DataFrame.empty
df_empty(df) == Len(df.columns) = 0 \/ Len(df.rows) = 0

\* df[first].astype(str) on one cell
astype_str(cell) == IF cell = None THEN NanText ELSE cell[1]

\* the first column of the frame
first_column(df) == [i \in DOMAIN df.rows |-> df.rows[i][1]]

\* df[first_column_name].dropna().astype(str).tolist()
RECURSIVE dropna_tolist(_)
dropna_tolist(col) ==
    IF col = <<>> THEN <<>>
    ELSE (IF Head(col) = None THEN <<>> ELSE <<astype_str(Head(col))>>)
         \o dropna_tolist(Tail(col))

\* the number of columns named name
IndexOfColumn(columns, name) ==
    IF \E j \in DOMAIN columns : columns[j] = name
    THEN CHOOSE j \in DOMAIN columns : columns[j] = name
    ELSE 0

\* df[name] = values: replaces the column of that name, else appends one
set_column(df, name, values) ==
    LET k == IndexOfColumn(df.columns, name) IN
    IF k = 0
    THEN [columns |-> Append(df.columns, name),
          rows |-> [i \in DOMAIN df.rows |-> Append(df.rows[i], Some(values[i]))]]
    ELSE [columns |-> df.columns,
          rows |-> [i \in DOMAIN df.rows |->
                      [j \in DOMAIN df.rows[i] |->
                         IF j = k THEN Some(values[i]) ELSE df.rows[i][j]]]]

\* df.to_excel(index=False): the file written
to_excel(df) == [valid |-> TRUE, columns |-> df.columns, rows |-> df.rows]

(***************************************************************************)
(* Upload helpers.                                                         *)
(***************************************************************************)
ALLOWED_EXTENSIONS == { <<"x","l","s","x">>, <<"x","l","s">> }

\* allowed_file splitting at the first dot: filename.split('.')[1]
allowed_file_FirstDot(filename) ==
    /\ "." \in Range(filename)
    /\ LET first == CHOOSE i \in DOMAIN filename :
                      filename[i] = "." /\ \A j \in 1..(i - 1) : filename[j] # "."
           rest == SubSeq(filename, first + 1, Len(filename))
           stop == IF "." \in Range(rest)
                   THEN (CHOOSE i \in DOMAIN rest :
                           rest[i] = "." /\ \A j \in 1..(i - 1) : rest[j] # ".") - 1
                   ELSE Len(rest)
       IN  Lower(SubSeq(rest, 1, stop)) \in ALLOWED_EXTENSIONS

\* app.py allowed_file
allowed_file(filename) ==
    "." \in Range(filename) /\ Lower(RSplitExt(filename)) \in ALLOWED_EXTENSIONS

SafeChars == Range(UpperChars) \cup Range(LowerChars) \cup Digits \cup {"_", ".", "-"}

\* "_".join(s.split()) on a text without leading or trailing whitespace
RECURSIVE JoinWords(_)
JoinWords(s) ==
    IF s = <<>> THEN <<>>
    ELSE IF Head(s) \in Whitespace
         THEN <<"_">> \o JoinWords(LStripSet(s, Whitespace))
         ELSE <<Head(s)>> \o JoinWords(Tail(s))

\* werkzeug.utils.secure_filename
secure_filename(os, filename) ==
    LET spaced == [i \in DOMAIN filename |->
                     IF filename[i] \in Seps(os) THEN " " ELSE filename[i]]
        joined == JoinWords(Strip(spaced))
        IsSafe(c) == c \in SafeChars
    IN  StripSet(SelectSeq(joined, IsSafe), {".", "_"})

(***************************************************************************)
(* Inputs.                                                                 *)
(***************************************************************************)
A_XLSX == <<"a",".","x","l","s","x">>
UploadNames ==
    { A_XLSX,
      <<".",".","/","a",".","x","l","s","x">>,
      <<"a",".","t","x","t">>,
      <<"x","l","s","x">>,
      <<"a",".","x","l","s","x",".","e","x","e">> }
ProcessNames ==
    { <<>>, A_XLSX, <<"z",".","x","l","s">>, DotDot,
      <<".",".","/">> \o AppPy }
DownloadNames ==
    { ProcessedPrefix \o A_XLSX, A_XLSX, DotDot, <<".",".","\\">> \o AppPy }
LookupNames == { <<" ">>, <<" ","a","b"," ">> }
CliInputs == { <<"a","b">>, <<"a","b"," ">>, <<"Q","u","i","t">> }
DescOutcomes == { Fail, Reply(<<" ","d","\n">>) }

HeaderPool == { <<"Name", "City">>, <<"Name", ParentCompanyHeader>> }
FirstCells ==
    { None, Some(<<" ">>), Some(NanText), Some(<<"A","b">>) }
RowDigits == <<"1","2","3","4","5","6","7","8","9">>
\* a sheet with the given header whose first column is col
Sheet(h, col) ==
    [valid |-> TRUE, columns |-> h,
     rows |-> [i \in DOMAIN col |->
                 [j \in DOMAIN h |->
                    IF j = 1 THEN col[i] ELSE Some(<<"v", RowDigits[i]>>)]]]
NoColumns == [valid |-> TRUE, columns |-> <<>>, rows |-> <<>>]
Workbooks ==
    {NotASheet, NoColumns} \cup
    { Sheet(h, col) : h \in HeaderPool,
                      col \in UNION { [1..k -> FirstCells] : k \in 0..MaxRows } }

(***************************************************************************)
(* State.                                                                  *)
(***************************************************************************)
VARIABLES
    os_name,     \* "posix" or "nt": the platform the process runs on
    program,     \* "app" (app.py) or "app1" (app1.py)
    credential,  \* whether GROQ_API_KEY is set
    workbook,    \* the content of the file the user submits (one per run)
    pc,          \* "boot", "serving", "cli" or "exited"
    client,      \* the module-level client: "None" or "Groq"
    uploads,     \* the upload directory: name -> file
    outputs,     \* the output directory: name -> file
    reported,    \* name -> what upload_file answered for the file staged there
    escaped,     \* a write landed outside the two staging directories
    resp         \* the last request and its response

vars == <<os_name, program, credential, workbook, pc, client, uploads, outputs,
          reported, escaped, resp>>

EmptyDir == [n \in {} |-> NotASheet]
Put(dir, name, file) ==
    [n \in DOMAIN dir \cup {name} |-> IF n = name THEN file ELSE dir[n]]

NoResp ==
    [route |-> "none", status |-> 0, error |-> None, req |-> <<>>,
     filename |-> None, total |-> 0, calls |-> 0,
     parent_company |-> None, description |-> None,
     o1 |-> Fail, outcomes |-> <<>>, lookups |-> 0, served |-> None]

Init ==
    /\ os_name \in {"posix", "nt"}
    /\ program \in {"app", "app1"}
    /\ credential \in BOOLEAN
    /\ workbook \in Workbooks
    /\ pc = "boot"
    /\ client = "None"
    /\ \E stale \in BOOLEAN :
         /\ uploads = IF stale THEN Put(EmptyDir, A_XLSX, workbook) ELSE EmptyDir
         /\ outputs = IF stale THEN Put(EmptyDir, ProcessedPrefix \o A_XLSX, workbook)
                      ELSE EmptyDir
    /\ reported = EmptyDir
    /\ escaped = FALSE
    /\ resp = NoResp

\* a client constructed whether or not the key is set
InitClient_Always(cred) == "Groq"

\* app.py lines 33-40, app1.py lines 9-18: the client after initialisation
InitClient(cred) == IF cred THEN "Groq" ELSE "None"

\* app.py module level: clear_temp_folders, then the client
StartApp ==
    /\ pc = "boot" /\ program = "app"
    /\ uploads' = EmptyDir
    /\ outputs' = EmptyDir
    /\ client' = InitClient(credential)
    /\ pc' = "serving"
    /\ UNCHANGED <<os_name, program, credential, workbook, reported, escaped, resp>>

\* app1.py module level: the client, or exit()
StartApp1 ==
    /\ pc = "boot" /\ program = "app1"
    /\ client' = InitClient(credential)
    /\ pc' = IF credential THEN "cli" ELSE "exited"
    /\ UNCHANGED <<os_name, program, credential, workbook, uploads, outputs,
                   reported, escaped, resp>>

\* app1.py main loop: one input line
Cli(user_input, o) ==
    /\ pc = "cli"
    /\ IF Lower(user_input) \in { <<"q","u","i","t">>, <<"e","x","i","t">> }
       THEN /\ pc' = "exited"
            /\ resp' = [NoResp EXCEPT !.route = "cli", !.req = user_input]
       ELSE /\ pc' = pc
            /\ resp' = [NoResp EXCEPT !.route = "cli", !.req = user_input,
                          !.o1 = o, !.calls = 1,
                          !.parent_company = Some(get_parent_company(user_input, o))]
    /\ UNCHANGED <<os_name, program, credential, workbook, client, uploads, outputs,
                   reported, escaped>>

\* POST /lookup
Lookup(raw_name, o1, o2) ==
    /\ pc = "serving"
    /\ LET company_name == Strip(raw_name) IN
       IF company_name = <<>>
       THEN resp' = [NoResp EXCEPT !.route = "lookup", !.status = 400,
                       !.error = Some("Please enter a company name")]
       ELSE LET result == get_parent_company_info(client, company_name, o1, o2) IN
            resp' = [NoResp EXCEPT !.route = "lookup",
                       !.status = IF result.error # None THEN 500 ELSE 200,
                       !.error = result.error, !.req = company_name,
                       !.parent_company = result.parent_company,
                       !.description = result.description,
                       !.o1 = IF client = "None" THEN Fail ELSE o1,
                       !.calls = result.calls]
    /\ UNCHANGED <<os_name, program, credential, workbook, pc, client, uploads,
                   outputs, reported, escaped>>

\* POST /upload without a 'file' part, or with an empty filename
UploadNoFile ==
    /\ pc = "serving"
    /\ \E msg \in {"No file part in the request", "No file selected"} :
         resp' = [NoResp EXCEPT !.route = "upload", !.status = 400, !.error = Some(msg)]
    /\ UNCHANGED <<os_name, program, credential, workbook, pc, client, uploads,
                   outputs, reported, escaped>>

\* what upload_file answers once the file is saved and read
UploadAnswer(file, filename) ==
    IF ~file.valid
    THEN [NoResp EXCEPT !.route = "upload", !.status = 500,
            !.error = Some("Error reading or saving file")]
    ELSE LET df == read_excel(file) IN
         IF df_empty(df)
         THEN [NoResp EXCEPT !.route = "upload", !.status = 400,
                 !.error = Some("The Excel file is empty")]
         ELSE LET companies == dropna_tolist(first_column(df)) IN
              IF companies = <<>>
              THEN [NoResp EXCEPT !.route = "upload", !.status = 400,
                      !.error = Some("No company names found in the first column")]
              ELSE [NoResp EXCEPT !.route = "upload", !.status = 200,
                      !.filename = Some(filename), !.total = Len(companies)]

\* POST /upload with a file named raw_name whose content is the workbook
Upload(raw_name) ==
    /\ pc = "serving"
    /\ IF ~allowed_file(raw_name)
       THEN /\ resp' = [NoResp EXCEPT !.route = "upload", !.status = 400,
                          !.req = raw_name,
                          !.error = Some("Invalid file type. Please upload .xlsx or .xls")]
            /\ UNCHANGED <<uploads, reported>>
       ELSE LET filename == secure_filename(os_name, raw_name)
                answer == UploadAnswer(workbook, filename)
            IN  /\ uploads' = Put(uploads, filename, workbook)
                /\ resp' = [answer EXCEPT !.req = raw_name]
                /\ reported' = Put(reported, filename,
                                   [accepted |-> answer.status = 200,
                                    total_companies |-> answer.total])
    /\ UNCHANGED <<os_name, program, credential, workbook, pc, client, outputs,
                   escaped>>

\* the loop's test without the 'nan' comparison
IsCompany_NoNanCheck(company) == Strip(company) # <<>>

\* whether process_file's loop looks the cell up
IsCompany(company) == Strip(company) # <<>> /\ Lower(company) # NanText

\* process_file's loop: the values of the new column
parent_companies(df, outs) ==
    [i \in DOMAIN df.rows |->
       LET company == astype_str(df.rows[i][1]) IN
       IF IsCompany(company)
       THEN get_parent_company_only(client, Strip(company), outs[i])
       ELSE <<>>]

\* the rows the loop looked up
CalledRows(df) == { i \in DOMAIN df.rows : IsCompany(astype_str(df.rows[i][1])) }

\* the outcomes the loop consumed, row by row (Fail where no call was made)
UsedOutcomes(df, outs) ==
    LET called == IF client = "None" THEN {} ELSE CalledRows(df)
    IN  [i \in DOMAIN df.rows |-> IF i \in called THEN outs[i] ELSE Fail]

\* the outcomes worth choosing for a process request: one per row looked up
OutcomeChoices(filename) ==
    LET loc == Locate(os_name, UPLOAD_FOLDER, filename, uploads, outputs) IN
    IF loc.kind # "file" \/ loc.dir \notin {"uploads", "outputs"} \/ client = "None"
    THEN { [i \in 1..MaxRows |-> Fail] }
    ELSE LET f == IF loc.dir = "uploads" THEN uploads[loc.name] ELSE outputs[loc.name]
             called == CalledRows(read_excel(f))
             idle == (1..MaxRows) \ called
         IN  { outs \in [1..MaxRows -> Outcomes] : \A i \in idle : outs[i] = Fail }

\* the file a location names
FileAt(loc) ==
    CASE loc.dir = "uploads" -> uploads[loc.name]
      [] loc.dir = "outputs" -> outputs[loc.name]
      [] OTHER -> NotASheet

\* POST /process
Process(filename, outs) ==
    /\ pc = "serving"
    /\ LET loc == Locate(os_name, UPLOAD_FOLDER, filename, uploads, outputs)
           base == [NoResp EXCEPT !.route = "process", !.req = filename]
           failed == [base EXCEPT !.status = 500,
                        !.error = Some("An error occurred during processing")]
       IN
       IF filename = <<>>
       THEN /\ resp' = [base EXCEPT !.status = 400,
                          !.error = Some("Filename not provided")]
            /\ UNCHANGED <<uploads, outputs, escaped>>
       ELSE IF ~PathExists(loc)
       THEN /\ resp' = [base EXCEPT !.status = 404,
                          !.error = Some("File not found on server")]
            /\ UNCHANGED <<uploads, outputs, escaped>>
       ELSE IF loc.kind = "dir" \/ ~FileAt(loc).valid
                 \/ Len(FileAt(loc).columns) = 0
       THEN /\ resp' = failed
            /\ UNCHANGED <<uploads, outputs, escaped>>
       ELSE LET df == read_excel(FileAt(loc))
                lookups == Cardinality(CalledRows(df))
                column == parent_companies(df, outs)
                out_df == set_column(df, ParentCompanyHeader, column)
                output_filename == ProcessedPrefix \o filename
                oloc == Locate(os_name, OUTPUT_FOLDER, output_filename,
                               uploads, outputs)
                made == [failed EXCEPT
                           !.calls = lookups * only_calls(client),
                           !.lookups = lookups,
                           !.outcomes = UsedOutcomes(df, outs)]
            IN  IF oloc.kind \in {"dir", "nodir"}
                THEN /\ resp' = made
                     /\ UNCHANGED <<uploads, outputs, escaped>>
                ELSE /\ resp' = [made EXCEPT !.status = 200, !.error = None,
                                   !.filename = Some(output_filename)]
                     /\ outputs' = IF oloc.dir = "outputs"
                                   THEN Put(outputs, oloc.name, to_excel(out_df))
                                   ELSE outputs
                     /\ uploads' = IF oloc.dir = "uploads"
                                   THEN Put(uploads, oloc.name, to_excel(out_df))
                                   ELSE uploads
                     /\ escaped' = (escaped \/ oloc.dir \notin {"uploads", "outputs"})
    /\ UNCHANGED <<os_name, program, credential, workbook, pc, client, reported>>

\* a process request for any of the names, with any upstream behaviour
ProcessRequest ==
    \E n \in ProcessNames : \E outs \in OutcomeChoices(n) : Process(n, outs)

\* GET /download/<filename>
Download(filename) ==
    /\ pc = "serving"
    /\ LET loc == Locate(os_name, OUTPUT_FOLDER, filename, uploads, outputs)
           base == [NoResp EXCEPT !.route = "download", !.req = filename]
       IN  resp' = IF ~PathExists(loc)
                   THEN [base EXCEPT !.status = 404,
                           !.error = Some("File not found for download")]
                   ELSE IF loc.kind = "dir"
                   THEN [base EXCEPT !.status = 500,
                           !.error = Some("Could not download file")]
                   ELSE [base EXCEPT !.status = 200,
                           !.served = Some([dir |-> loc.dir, name |-> loc.name])]
    /\ UNCHANGED <<os_name, program, credential, workbook, pc, client, uploads,
                   outputs, reported, escaped>>

Next ==
    \/ StartApp
    \/ StartApp1
    \/ \E n \in CliInputs, o \in Outcomes : Cli(n, o)
    \/ \E n \in LookupNames, o1 \in Outcomes, o2 \in DescOutcomes : Lookup(n, o1, o2)
    \/ UploadNoFile
    \/ \E n \in UploadNames : Upload(n)
    \/ ProcessRequest
    \/ \E n \in DownloadNames : Download(n)

Spec == Init /\ [][Next]_vars

(***************************************************************************)
(* Properties.                                                             *)
(***************************************************************************)
\* the last request was a completed batch over a file staged by upload
Processed ==
    /\ resp.route = "process" /\ resp.status = 200
    /\ resp.req \in DOMAIN uploads
    /\ resp.filename # None /\ resp.filename[1] \in DOMAIN outputs
InFile == uploads[resp.req]
OutFile == outputs[resp.filename[1]]
ParentColumn == IndexOfColumn(OutFile.columns, ParentCompanyHeader)
\* the value the batch wrote for row i
Written(i) == OutFile.rows[i][ParentColumn]
\* the first-column text of row i as the loop saw it
SeenName(i) == Strip(astype_str(read_excel(InFile).rows[i][1]))
\* row i was looked up and the upstream answered / raised
Answered(i) == i \in DOMAIN resp.outcomes /\ resp.outcomes[i].ok
Raised(i) ==
    /\ i \in DOMAIN resp.outcomes /\ ~resp.outcomes[i].ok
    /\ client = "Groq" /\ IsCompany(astype_str(read_excel(InFile).rows[i][1]))
\* what the resolver owes for name c and raw reply r
Normalised(c, r) == IF Lower(Strip(r)) = Lower(c) THEN NoParentCompany ELSE Strip(r)
\* a raw cell that is missing or holds only whitespace
BlankCell(cell) == cell = None \/ Strip(cell[1]) = <<>>

\* C1: whenever a lookup succeeds on upstream reply R for company C, the parent
\* returned is "No parent company" if trimmed R equals C ignoring case and
\* trimmed R verbatim otherwise, in full mode (/lookup) and in name-only mode
\* (every row of a batch that was answered).
C1_SelfReplyIsSentinel ==
    /\ (resp.route = "lookup" /\ resp.status = 200)
         => resp.parent_company = Some(Normalised(resp.req, resp.o1.text))
    /\ Processed
         => \A i \in DOMAIN OutFile.rows :
               Answered(i) => Written(i) = Some(Normalised(SeenName(i), resp.outcomes[i].text))
\* reached: a batch of two answered rows: one reply equal to the name ignoring case, one different
C1_Witness ==
    /\ Processed /\ Len(OutFile.rows) = 2
    /\ Answered(1) /\ Answered(2)
    /\ Written(1) = Some(NoParentCompany)
    /\ Written(2) = Some(<<"X","y">>)

\* C2: a completed batch writes one value per input row, in row order, and a
\* row whose first cell is blank or missing gets the empty string.
C2_OneRowPerInputRow ==
    Processed =>
      /\ Len(OutFile.rows) = Len(InFile.rows)
      /\ ParentColumn # 0
      /\ \A i \in DOMAIN InFile.rows :
            /\ Written(i) # None
            /\ BlankCell(InFile.rows[i][1]) => Written(i) = Some(<<>>)
\* reached: a batch over a sheet whose first row has no company cell and whose second has one
C2_Witness ==
    /\ Processed /\ Len(InFile.rows) = 2
    /\ InFile.rows[1][1] = None
    /\ InFile.rows[2][1] = Some(<<"A","b">>)
    /\ Written(1) = Some(<<>>) /\ Written(2) # Some(<<>>)

\* C3 (as claimed): in a completed batch every input column is present and
\* unmodified in the output, which has exactly one column more.
C3_RoundTripClaim ==
    Processed =>
      /\ Len(OutFile.columns) = Len(InFile.columns) + 1
      /\ \A j \in DOMAIN InFile.columns :
            /\ OutFile.columns[j] = InFile.columns[j]
            /\ \A i \in DOMAIN InFile.rows :
                  i \in DOMAIN OutFile.rows /\ OutFile.rows[i][j] = InFile.rows[i][j]

\* C4 (as claimed): download serves only a file of the output directory named
\* by the request; any other request gets 404 and nothing outside is read.
C4_DownloadClaim ==
    resp.route = "download" =>
      /\ resp.served # None
           => (resp.served[1].dir = "outputs" /\ resp.req \in DOMAIN outputs
               /\ resp.served[1].name = resp.req)
      /\ resp.req \notin DOMAIN outputs => (resp.status = 404 /\ resp.served = None)

\* the extension test of the allow-list, stated on the raw filename
HasAllowedExtension(name) ==
    \E i \in DOMAIN name :
       /\ name[i] = "."
       /\ \A j \in (i + 1)..Len(name) : name[j] # "."
       /\ Lower(SubSeq(name, i + 1, Len(name))) \in { <<"x","l","s","x">>, <<"x","l","s">> }

\* C5: an upload whose extension is not xlsx or xls is answered 400 and
\* leaves the upload and output directories as they were.
C5_BadExtensionRejectedBeforeWrite ==
    [][ (resp'.route = "upload" /\ resp'.req # <<>> /\ ~HasAllowedExtension(resp'.req))
          => (resp'.status = 400 /\ uploads' = uploads /\ outputs' = outputs) ]_vars
\* reached: a.xlsx.exe refused while a.xlsx is staged
C5_Witness ==
    /\ resp.route = "upload" /\ resp.status = 400
    /\ resp.req = <<"a",".","x","l","s","x",".","e","x","e">>
    /\ A_XLSX \in DOMAIN uploads

\* C6 (as claimed): an upstream failure on any row aborts the batch: an
\* error response and no output file.
C6_FailureAbortsClaim ==
    (resp.route = "process" /\ resp.req \in DOMAIN uploads
       /\ resp.lookups > 0 /\ \E i \in DOMAIN resp.outcomes : Raised(i))
      => (resp.status >= 400 /\ resp.filename = None)

\* C6 (amended): an upstream failure on a row of a staged file does not abort
\* the batch: process_file answers 200, writes the output, that row's value
\* is "API Error" and every answered row keeps its own result.
C6_FailureIsRecordedPerRow ==
    (resp.route = "process" /\ resp.req \in DOMAIN uploads
       /\ resp.lookups > 0 /\ \E i \in DOMAIN resp.outcomes : Raised(i))
      => /\ Processed
         /\ Len(OutFile.rows) = Len(InFile.rows)
         /\ \A i \in DOMAIN OutFile.rows :
               /\ Raised(i) => Written(i) = Some(ApiError)
               /\ (Answered(i) /\ ~Raised(i)) => Written(i) # Some(ApiError)
\* reached: a batch whose first lookup raised and whose second was answered
C6_Witness ==
    /\ Processed /\ Len(OutFile.rows) = 2
    /\ Raised(1) /\ Answered(2)
    /\ Written(1) = Some(ApiError)
    /\ Written(2) = Some(NoParentCompany)

\* a resolved single lookup (not the 400 of an empty name)
Resolved == resp.route = "lookup" /\ resp.status # 400

\* C7 (as claimed): every full-mode result has either parent_company and
\* description and no error, or an error and neither of the two.
C7_ExactlyOneAlternativeClaim ==
    Resolved =>
      \/ (resp.error = None /\ resp.parent_company # None /\ resp.description # None)
      \/ (resp.error # None /\ resp.parent_company = None /\ resp.description = None)

\* C7 (amended): a success has parent_company and description and no error;
\* an upstream failure in either call has the error and the placeholder
\* "Error for <name>" in both fields; an unavailable client has the error alone.
C7_ErrorCarriesPlaceholders ==
    Resolved =>
      \/ /\ resp.error = None /\ resp.calls = 2
         /\ resp.parent_company # None /\ resp.description # None
      \/ /\ resp.error # None /\ resp.calls \in {1, 2} /\ client = "Groq"
         /\ resp.parent_company = Some(ErrorFor \o resp.req)
         /\ resp.description = Some(ErrorFor \o resp.req)
      \/ /\ resp.error # None /\ resp.calls = 0 /\ client = "None"
         /\ resp.parent_company = None /\ resp.description = None
\* reached: a lookup whose parent call was answered and whose description call raised
C7_Witness ==
    /\ Resolved /\ resp.o1.ok /\ resp.calls = 2
    /\ resp.error # None
    /\ resp.parent_company = Some(ErrorFor \o <<"a","b">>)

\* what holds of a started process without a credential
NoCredentialBehaviour ==
    /\ pc # "exited"
    /\ client = "None"
    /\ resp.calls = 0
    /\ Resolved => (resp.status = 500 /\ resp.error # None)
    /\ Processed => \A i \in DOMAIN OutFile.rows :
                       IsCompany(astype_str(read_excel(InFile).rows[i][1]))
                          => Written(i) = Some(ErrorNotInitialized)

C9_RejectedNeverProcessedClaim ==
    (resp.route = "process" /\ resp.req \in DOMAIN reported
       /\ ~reported[resp.req].accepted)
      => (resp.calls = 0 /\ resp.filename = None)

\* C10 (as claimed): the total_companies answered by upload_file equals the
\* number of rows process_file looks up in the same file.
C10_CountsAgreeClaim ==
    (Processed /\ resp.req \in DOMAIN reported /\ reported[resp.req].accepted)
      => resp.lookups = reported[resp.req].total_companies

=============================================================================
